---- MODULE Spec2Model ----
(***************************************************************************)
(* ECH Workers client (gui.py): the profile store (ConfigManager), the     *)
(* main window's handlers (MainWindow) and the process supervisor          *)
(* (ProcessThread), as one state machine.                                  *)
(*                                                                         *)
(* Texts the user types are sequences of one-character strings, so that    *)
(* str.strip() and the ordering of names are computed and not assumed.     *)
(* Identifiers and field values are strings.  A Python dict kept in        *)
(* self.servers is a record that carries, besides its keys, the field obj: *)
(* the identity of the dict object.  Two list entries with the same obj    *)
(* are the same object, and an in-place assignment (server['name'] = ...)  *)
(* changes every entry with that obj.                                      *)
(***************************************************************************)
EXTENDS Integers, Sequences, FiniteSets, TLC

\* ---------------------------------------------------------------- bounds
MaxServers == 2     \* the UI add is offered while the list is shorter
MaxNameLen == 2     \* longest text typed into a name dialog
MaxSessions == 2    \* ProcessThread objects created in one run (SpecProc)
StoreSessions == 1  \* the same, in Spec
MaxLines == 1       \* output lines relayed per session
MaxUuid == 2        \* uuid4() calls in one run

\* ------------------------------------------------------------ Python values
None == "<None>"
NoKey == "<nokey>"          \* dict.get on a key the dict does not hold

\* None where a dict is expected (get_current_server, get_control_values)
NoServer == [none |-> TRUE]

Truthy(v) == v \notin {None, NoKey, ""}

Fields == {"server", "listen", "token", "ip", "dns", "ech"}

DefaultDns == "dns.alidns.com/dns-query"
DefaultEch == "cloudflare-ech.com"

\* '默认服务器', the name of the synthesized profile; "D" stands for it.
DefaultName == <<"D">>

\* ordering of characters (code points): ' ' < 'a' < 'b' < CJK
CharRank(c) == CASE c = " " -> 0 [] c = "a" -> 1 [] c = "b" -> 2 [] OTHER -> 3

RECURSIVE StrLess(_, _)
StrLess(s, t) ==
    IF s = <<>> THEN t # <<>>
    ELSE IF t = <<>> THEN FALSE
    ELSE IF CharRank(Head(s)) # CharRank(Head(t))
         THEN CharRank(Head(s)) < CharRank(Head(t))
         ELSE StrLess(Tail(s), Tail(t))

RECURSIVE LStrip(_)
LStrip(s) == IF s # <<>> /\ Head(s) = " " THEN LStrip(Tail(s)) ELSE s

RECURSIVE RStrip(_)
RStrip(s) ==
    IF s # <<>> /\ s[Len(s)] = " " THEN RStrip(SubSeq(s, 1, Len(s) - 1)) ELSE s

\* str.strip()
Strip(s) == RStrip(LStrip(s))

\* ------------------------------------------------------------ dict objects
Values(p) == [f \in Fields |-> p[f]]

Profile(id, name, vals, obj) ==
    [id |-> id, name |-> name, obj |-> obj,
     server |-> vals.server, listen |-> vals.listen, token |-> vals.token,
     ip |-> vals.ip, dns |-> vals.dns, ech |-> vals.ech]

NoValues == [f \in Fields |-> NoKey]

SeqMax(s) ==
    IF s = <<>> THEN 0
    ELSE CHOOSE m \in {s[i].obj : i \in DOMAIN s} :
            \A i \in DOMAIN s : s[i].obj <= m

\* an object identity no entry of the list has
FreshObj(s) == SeqMax(s) + 1

\* Object identities are renumbered by first occurrence in the list: which
\* entries are one object is kept, the numbers themselves mean nothing.
FirstAt(s, o) == CHOOSE i \in DOMAIN s :
                    s[i].obj = o /\ \A j \in 1..(i - 1) : s[j].obj # o

Renumber(s) ==
    [i \in DOMAIN s |->
        [s[i] EXCEPT !.obj =
            Cardinality({FirstAt(s, s[j].obj) : j \in 1..FirstAt(s, s[i].obj)})]]

\* ---------------------------------------------------------- ConfigManager
FirstWithId(s, id) ==
    IF \E i \in DOMAIN s : s[i].id = id
    THEN CHOOSE i \in DOMAIN s :
            s[i].id = id /\ \A j \in 1..(i - 1) : s[j].id # id
    ELSE 0

\* index of the entry get_current_server returns, 0 for None
CurrentIndex(s, cur) ==
    IF Truthy(cur) /\ FirstWithId(s, cur) # 0 THEN FirstWithId(s, cur)
    ELSE IF s # <<>> THEN 1 ELSE 0

\* get_current_server without line 94's fallback to the first profile
get_current_server_no_fallback(s, cur) ==
    IF Truthy(cur) /\ FirstWithId(s, cur) # 0 THEN s[FirstWithId(s, cur)]
    ELSE NoServer

get_current_server(s, cur) ==
    IF CurrentIndex(s, cur) = 0 THEN NoServer ELSE s[CurrentIndex(s, cur)]

update_server(s, data) ==
    IF FirstWithId(s, data.id) = 0 THEN s
    ELSE [s EXCEPT ![FirstWithId(s, data.id)] = data]

delete_server_list(s, id) == SelectSeq(s, LAMBDA p : p.id # id)

delete_server_current(s, cur, id) ==
    IF cur = id
    THEN IF delete_server_list(s, id) # <<>>
         THEN delete_server_list(s, id)[1].id ELSE None
    ELSE cur

\* ---------------------------------------------------------- the config file
\* json.dump writes the keys of each dict; the identity of the object is lost.
Plain(p) == [p EXCEPT !.obj = 0]

Serialize(s) == [i \in DOMAIN s |-> Plain(s[i])]

\* json.load builds one new dict per entry.
Deserialize(sv) == [i \in DOMAIN sv |-> [sv[i] EXCEPT !.obj = i]]

JsonFile(st, sv, cur) ==
    [kind |-> "json", top |-> "object", st |-> st, sv |-> sv, current |-> cur]

OtherFile(kind) ==
    [kind |-> kind, top |-> "object", st |-> "missing", sv |-> <<>>,
     current |-> NoKey]

\* a JSON document whose top-level value is not an object
NonObjectFile == [JsonFile("missing", <<>>, NoKey) EXCEPT !.top = "other"]

save_config(file, s, cur, canWrite) ==
    IF canWrite THEN JsonFile("list", Serialize(s), cur) ELSE file

Uuid(n) == CASE n = 1 -> "u1" [] n = 2 -> "u2" [] n = 3 -> "u3" [] OTHER -> "u4"

DefaultValues ==
    [server |-> "example.com:443", listen |-> "127.0.0.1:30000", token |-> "",
     ip |-> "", dns |-> "", ech |-> ""]

default_server(n, obj) == Profile(Uuid(n), DefaultName, DefaultValues, obj)

\* `not self.servers` for the value data.get('servers', []) returned
FalsyServers(st, sv) ==
    \/ st \in {"missing", "null", "emptyobj", "emptystr"}
    \/ st = "list" /\ sv = <<>>

\* load_config: [status, type, servers, current, file, uuids]
\*   status "raised": an exception left load_config
load_config(file, canWrite, uuids) ==
    LET readable == file.kind = "json" /\ file.top = "object"
        st == IF readable THEN file.st ELSE "missing"
        sv == IF readable /\ st = "list" THEN Deserialize(file.sv) ELSE <<>>
        cur == IF readable
               THEN (IF file.current = NoKey THEN None ELSE file.current)
               ELSE None
        type == IF st = "missing" THEN "list" ELSE st
    IN  IF ~FalsyServers(st, sv)
        THEN [status |-> "returned", type |-> type, servers |-> sv,
              current |-> cur, file |-> file, uuids |-> uuids]
        ELSE IF type = "list"
        THEN LET d == default_server(uuids + 1, 1)
             IN  [status |-> "returned", type |-> "list", servers |-> <<d>>,
                  current |-> d.id,
                  file |-> save_config(file, <<d>>, d.id, canWrite),
                  uuids |-> uuids + 1]
        ELSE \* self.servers.append on None, {} or '': AttributeError
             [status |-> "raised", type |-> type, servers |-> <<>>,
              current |-> cur, file |-> file, uuids |-> uuids + 1]

\* ------------------------------------------------------------- MainWindow
RECURSIVE SortedInsert(_, _)
SortedInsert(sorted, p) ==
    IF sorted = <<>> THEN <<p>>
    ELSE IF StrLess(p.name, Head(sorted).name) THEN <<p>> \o sorted
    ELSE <<Head(sorted)>> \o SortedInsert(Tail(sorted), p)

RECURSIVE SortedByName(_)
SortedByName(s) ==
    IF s = <<>> THEN <<>>
    ELSE SortedInsert(SortedByName(SubSeq(s, 1, Len(s) - 1)), s[Len(s)])

ComboItems(s) ==
    [i \in DOMAIN s |-> [name |-> SortedByName(s)[i].name,
                         id |-> SortedByName(s)[i].id]]

\* the first item whose itemData is id, 0 when there is none
ItemWithId(items, id) ==
    IF \E i \in DOMAIN items : items[i].id = id
    THEN CHOOSE i \in DOMAIN items :
            items[i].id = id /\ \A j \in 1..(i - 1) : items[j].id # id
    ELSE 0

\* refresh_server_combo: [items, index]; index 0 is Qt's -1
refresh_server_combo(s, cur) ==
    LET items == ComboItems(s)
        c == get_current_server(s, cur)
    IN  [items |-> items,
         index |-> IF c # NoServer /\ ItemWithId(items, c.id) # 0
                   THEN ItemWithId(items, c.id)
                   ELSE IF items = <<>> THEN 0 ELSE 1]

Get(p, f) == IF p[f] = NoKey THEN "" ELSE p[f]

load_server_config(s, cur, e) ==
    IF get_current_server(s, cur) = NoServer THEN e
    ELSE [f \in Fields |-> Get(get_current_server(s, cur), f)]

\* get_control_values: a copy of the current dict with the six fields set
get_control_values(s, cur, e) ==
    IF get_current_server(s, cur) = NoServer THEN NoServer
    ELSE Profile(get_current_server(s, cur).id, get_current_server(s, cur).name,
                 e, FreshObj(s))

\* ------------------------------------------------------------------ state
VARIABLES
    servers,            \* ConfigManager.servers
    servers_type,       \* "list", or what a config file put there instead
    current_server_id,  \* ConfigManager.current_server_id
    config_file,        \* the content of config.json
    writable,           \* whether open(config_file, 'w') succeeds
    uuids,              \* uuid4() calls so far
    edits,              \* text of the six QLineEdit widgets
    combo,              \* server_combo: [items, index]
    buttons,            \* enabled flags: start, stop, fields, combo
    process_thread,     \* MainWindow.process_thread: 0 (None) or a thread
    uiPc,               \* where the UI thread is
    threads,            \* the ProcessThread objects, in order of creation
    notifQueue,         \* queued signal deliveries to the UI thread
    quota,              \* ProcessThread objects this run may create
    files,              \* the candidate executables on disk and in PATH
    ret,                \* what a method called on its own returned
    stopped_lines,      \* "process stopped" lines appended to log_text
    lastOp              \* the handler that ran last and how it ended

vars == <<servers, servers_type, current_server_id, config_file, writable,
          uuids, edits, combo, buttons, process_thread, uiPc, threads,
          notifQueue, quota, files, ret, stopped_lines, lastOp>>

storeVars == <<servers, servers_type, current_server_id, config_file, uuids>>
procVars == <<process_thread, threads, notifQueue>>
envVars == <<writable, quota, files, ret>>

Op(op, result) == [op |-> op, result |-> result]
NoOp == Op("none", "none")

BlankEdits == [f \in Fields |-> ""]

IdleButtons == [start |-> TRUE, stop |-> FALSE, fields |-> TRUE, combo |-> TRUE]
StartedButtons == [start |-> FALSE, stop |-> TRUE, fields |-> FALSE, combo |-> FALSE]

\* ProcessThread.__init__
NewThread(config) ==
    [pc |-> "resolve", process |-> None, is_running |-> FALSE,
     config |-> config, cmd |-> <<>>, os |-> "none", emits |-> <<>>]

\* the part of start_process after the two checks (lines 493-506)
StartAccepted(server) ==
    /\ Len(threads) < quota
    /\ servers' = Renumber(update_server(servers, server))
    /\ config_file' = save_config(config_file, servers', current_server_id, writable)
    /\ threads' = Append(threads, NewThread(Values(server)))
    /\ process_thread' = Len(threads) + 1
    /\ buttons' = StartedButtons
    /\ UNCHANGED <<servers_type, current_server_id, uuids, edits, combo, notifQueue>>

\* ---------------------------------------------------------------- startup
\* MainWindow.__init__: load_config, init_ui, load_server_config, auto_start
Boot(autostart) ==
    /\ uiPc = "boot"
    /\ LET r == load_config(config_file, writable, uuids)
           e == load_server_config(r.servers, r.current, BlankEdits)
           server == get_control_values(r.servers, r.current, e)
       IN  /\ servers_type' = r.type
           /\ current_server_id' = r.current
           /\ uuids' = r.uuids
           /\ combo' = [items |-> <<>>, index |-> 0]
           /\ notifQueue' = <<>>
           /\ lastOp' = Op("load_config", r.status)
           /\ IF r.status = "raised" \/ r.type # "list"
              THEN \* the exception leaves __init__: no window
                   /\ uiPc' = "crashed"
                   /\ servers' = r.servers
                   /\ config_file' = r.file
                   /\ edits' = BlankEdits
                   /\ UNCHANGED <<buttons, process_thread, threads>>
              ELSE /\ uiPc' = "idle"
                   /\ edits' = e
                   /\ IF autostart /\ server # NoServer /\ Truthy(server.server)
                         /\ Truthy(server.listen)
                      THEN /\ quota > 0
                           /\ servers' = Renumber(update_server(r.servers, server))
                           /\ config_file' =
                                save_config(r.file, servers', r.current, writable)
                           /\ threads' = <<NewThread(Values(server))>>
                           /\ process_thread' = 1
                           /\ buttons' = StartedButtons
                      ELSE /\ servers' = r.servers
                           /\ config_file' = r.file
                           /\ UNCHANGED <<buttons, process_thread, threads>>
    /\ UNCHANGED <<envVars, stopped_lines>>

\* ------------------------------------------------------------ UI handlers
UiIdle == uiPc = "idle"

\* the user types v into field f
UserEdit(f, v) ==
    /\ UiIdle
    /\ f \in {"server", "listen"} => buttons.fields
    /\ edits[f] # v
    /\ edits' = [edits EXCEPT ![f] = v]
    /\ lastOp' = NoOp
    /\ UNCHANGED <<storeVars, envVars, stopped_lines, combo, buttons,
                   procVars, uiPc>>

NameTaken(s, name) == \E i \in DOMAIN s : s[i].name = name

\* MainWindow.add_server; the dialog returned (raw, ok)
MainWindow_add_server(raw, ok) ==
    /\ UiIdle
    /\ LET name == Strip(raw)
           current == get_control_values(servers, current_server_id, edits)
           new_server ==
               IF current # NoServer THEN [current EXCEPT !.name = name]
               ELSE Profile(Uuid(uuids + 1), name, NoValues, FreshObj(servers))
       IN  IF ~(ok /\ name # <<>>)
           THEN /\ lastOp' = Op("add", "cancelled")
                /\ UNCHANGED <<storeVars, edits, combo>>
           ELSE IF NameTaken(servers, name)
           THEN /\ lastOp' = Op("add", "rejected")
                /\ UNCHANGED <<storeVars, edits, combo>>
           ELSE /\ Len(servers) < MaxServers
                /\ current = NoServer => uuids < MaxUuid
                /\ uuids' = IF current = NoServer THEN uuids + 1 ELSE uuids
                \* ConfigManager.add_server, then update_server
                /\ servers' =
                     Renumber(update_server(Append(servers, new_server), new_server))
                /\ current_server_id' = new_server.id
                /\ config_file' =
                     save_config(config_file, servers', current_server_id', writable)
                /\ combo' = refresh_server_combo(servers', current_server_id')
                /\ edits' = load_server_config(servers', current_server_id', edits)
                /\ lastOp' = Op("add", "accepted")
                /\ UNCHANGED servers_type
    /\ UNCHANGED <<envVars, stopped_lines, buttons, procVars, uiPc>>

\* MainWindow.save_server
MainWindow_save_server ==
    /\ UiIdle
    /\ LET server == get_control_values(servers, current_server_id, edits)
       IN  IF server = NoServer
           THEN UNCHANGED <<servers, config_file>>
           ELSE /\ servers' = Renumber(update_server(servers, server))
                /\ config_file' =
                     save_config(config_file, servers', current_server_id, writable)
    /\ lastOp' = Op("save", "done")
    /\ UNCHANGED <<servers_type, current_server_id, uuids, envVars,
                   stopped_lines, edits,
                   combo, buttons, procVars, uiPc>>

\* MainWindow.delete_server; the confirmation box returned yes or no
MainWindow_delete_server(yes) ==
    /\ UiIdle
    /\ LET server == get_current_server(servers, current_server_id)
       IN  IF Len(servers) <= 1
           THEN /\ lastOp' = Op("delete", "refused")
                /\ UNCHANGED <<servers, current_server_id, config_file, edits, combo>>
           ELSE IF ~yes
           THEN /\ lastOp' = Op("delete", "cancelled")
                /\ UNCHANGED <<servers, current_server_id, config_file, edits, combo>>
           ELSE /\ servers' = delete_server_list(servers, server.id)
                /\ current_server_id' =
                     delete_server_current(servers, current_server_id, server.id)
                /\ config_file' =
                     save_config(config_file, servers', current_server_id', writable)
                /\ combo' = refresh_server_combo(servers', current_server_id')
                /\ edits' = load_server_config(servers', current_server_id', edits)
                /\ lastOp' = Op("delete", "accepted")
    /\ UNCHANGED <<servers_type, uuids, envVars, stopped_lines, buttons,
                   procVars, uiPc>>

\* server['name'] = new_name: every list entry that is this object changes
SetName(s, obj, name) ==
    [i \in DOMAIN s |-> IF s[i].obj = obj THEN [s[i] EXCEPT !.name = name] ELSE s[i]]

RenameClash(s, server, name) ==
    \E i \in DOMAIN s : s[i].name = name /\ s[i].id # server.id

\* MainWindow.rename_server; the dialog returned (raw, ok)
MainWindow_rename_server(raw, ok) ==
    /\ UiIdle
    /\ LET server == get_current_server(servers, current_server_id)
           name == Strip(raw)
       IN  IF server = NoServer \/ ~(ok /\ name # <<>>)
           THEN /\ lastOp' = Op("rename", "cancelled")
                /\ UNCHANGED <<servers, config_file, combo>>
           ELSE IF RenameClash(servers, server, name)
           THEN /\ lastOp' = Op("rename", "rejected")
                /\ UNCHANGED <<servers, config_file, combo>>
           ELSE /\ servers' =
                     update_server(SetName(servers, server.obj, name),
                                   [server EXCEPT !.name = name])
                /\ config_file' =
                     save_config(config_file, servers', current_server_id, writable)
                /\ combo' = refresh_server_combo(servers', current_server_id)
                /\ lastOp' = Op("rename", "accepted")
    /\ UNCHANGED <<servers_type, current_server_id, uuids, envVars,
                   stopped_lines, edits,
                   buttons, procVars, uiPc>>

Running == process_thread # 0 /\ threads[process_thread].is_running

\* MainWindow.on_server_changed; the user picked item j of the combo box
on_server_changed(j) ==
    /\ UiIdle
    /\ buttons.combo
    /\ j \in DOMAIN combo.items
    /\ j # combo.index
    /\ LET current == get_current_server(servers, current_server_id)
           server_id == combo.items[j].id
       IN  IF Running
           THEN /\ combo' = [combo EXCEPT !.index =
                        IF current # NoServer /\ ItemWithId(combo.items, current.id) # 0
                        THEN ItemWithId(combo.items, current.id) ELSE j]
                /\ lastOp' = Op("select", "refused")
                /\ UNCHANGED <<current_server_id, edits, config_file>>
           ELSE /\ combo' = [combo EXCEPT !.index = j]
                /\ IF Truthy(server_id) /\ server_id # current_server_id
                   THEN /\ current_server_id' = server_id
                        /\ edits' = load_server_config(servers, server_id, edits)
                        /\ config_file' =
                             save_config(config_file, servers, server_id, writable)
                        /\ lastOp' = Op("select", "accepted")
                   ELSE /\ lastOp' = Op("select", "same")
                        /\ UNCHANGED <<current_server_id, edits, config_file>>
    /\ UNCHANGED <<servers, servers_type, uuids, envVars, stopped_lines,
                   buttons, procVars, uiPc>>

\* MainWindow.start_process
start_process ==
    /\ UiIdle
    /\ buttons.start
    /\ LET server == get_control_values(servers, current_server_id, edits)
       IN  IF server = NoServer
           THEN \* None.get: AttributeError leaves the slot
                /\ uiPc' = "crashed"
                /\ lastOp' = Op("start", "raised")
                /\ UNCHANGED <<storeVars, edits, combo, buttons, procVars>>
           ELSE IF ~Truthy(server.server) \/ ~Truthy(server.listen)
           THEN /\ lastOp' = Op("start", "rejected")
                /\ UNCHANGED <<storeVars, edits, combo, buttons, procVars, uiPc>>
           ELSE /\ StartAccepted(server)
                /\ lastOp' = Op("start", "accepted")
                /\ UNCHANGED uiPc
    /\ UNCHANGED <<envVars, stopped_lines>>

\* MainWindow.stop_process up to ProcessThread.stop line 183
stop_process ==
    /\ UiIdle
    /\ buttons.stop
    /\ IF process_thread = 0
       THEN /\ buttons' = IdleButtons
            /\ stopped_lines' = stopped_lines + 1
            /\ lastOp' = Op("stop", "returned")
            /\ UNCHANGED <<threads, uiPc>>
       ELSE /\ threads' = [threads EXCEPT ![process_thread].is_running = FALSE]
            /\ uiPc' = "stop_check"
            /\ lastOp' = NoOp
            /\ UNCHANGED <<buttons, stopped_lines>>
    /\ UNCHANGED <<storeVars, envVars, edits, combo, process_thread, notifQueue>>

\* stop lines 184-186 with terminate() sent whatever the handle's state
stop_terminate_always_signals ==
    /\ uiPc = "stop_check"
    /\ uiPc' = "stop_wait"
    /\ threads' = [threads EXCEPT ![process_thread].os = "terminating"]
    /\ lastOp' = NoOp
    /\ UNCHANGED <<storeVars, envVars, stopped_lines, edits, combo, buttons,
                   process_thread,
                   notifQueue>>

\* ProcessThread.stop lines 184-186: if self.process: terminate()
stop_terminate ==
    /\ uiPc = "stop_check"
    /\ IF threads[process_thread].process = None
       THEN /\ uiPc' = "join"
            /\ UNCHANGED threads
       ELSE /\ uiPc' = "stop_wait"
            /\ threads' = [threads EXCEPT ![process_thread].os =
                              IF @ = "alive" THEN "terminating" ELSE @]
    /\ lastOp' = NoOp
    /\ UNCHANGED <<storeVars, envVars, stopped_lines, edits, combo, buttons,
                   process_thread,
                   notifQueue>>

\* line 187: process.wait(timeout=3) returns, the process has exited
stop_waited ==
    /\ uiPc = "stop_wait"
    /\ threads[process_thread].os = "exited"
    /\ uiPc' = "join"
    /\ lastOp' = NoOp
    /\ UNCHANGED <<storeVars, envVars, stopped_lines, edits, combo, buttons,
                   procVars>>

\* lines 188-189: the wait timed out, process.kill()
stop_kill ==
    /\ uiPc = "stop_wait"
    /\ threads[process_thread].os # "exited"
    /\ threads' = [threads EXCEPT ![process_thread].os = "killed"]
    /\ uiPc' = "join"
    /\ lastOp' = NoOp
    /\ UNCHANGED <<storeVars, envVars, stopped_lines, edits, combo, buttons,
                   process_thread,
                   notifQueue>>

\* stop_process lines 512-513: process_thread.wait() returns, then
\* on_process_finished()
stop_joined ==
    /\ uiPc = "join"
    /\ threads[process_thread].pc = "done"
    /\ uiPc' = "idle"
    /\ buttons' = IdleButtons
    /\ stopped_lines' = stopped_lines + 1
    /\ lastOp' = Op("stop", "returned")
    /\ UNCHANGED <<storeVars, envVars, edits, combo, procVars>>

\* a queued signal reaches its slot: append_log or on_process_finished
Deliver ==
    /\ UiIdle
    /\ notifQueue # <<>>
    /\ notifQueue' = Tail(notifQueue)
    /\ IF Head(notifQueue).kind = "finished"
       THEN /\ buttons' = IdleButtons
            /\ stopped_lines' = stopped_lines + 1
            /\ lastOp' = Op("on_process_finished", "signal")
       ELSE /\ lastOp' = NoOp
            /\ UNCHANGED <<buttons, stopped_lines>>
    /\ UNCHANGED <<storeVars, envVars, edits, combo, process_thread, threads, uiPc>>

\* ----------------------------------------------------------- ProcessThread
ExePath == "ech-workers"

\* the flag test without the comparison with the built-in default
Flag_ignoring_default(flag, v, default) ==
    IF Truthy(v) THEN <<flag, v>> ELSE <<>>

Flag(flag, v, default) ==
    IF Truthy(v) /\ v # default THEN <<flag, v>> ELSE <<>>

\* run lines 144-156
BuildCmd(exe_path, config) ==
    <<exe_path>>
        \o Flag("-f", config.server, None)
        \o Flag("-l", config.listen, None)
        \o Flag("-token", config.token, None)
        \o Flag("-ip", config.ip, None)
        \o Flag("-dns", config.dns, DefaultDns)
        \o Flag("-ech", config.ech, DefaultEch)

Note(s, kind) == [sid |-> s, kind |-> kind]

Notes(s, kinds) == [i \in DOMAIN kinds |-> Note(s, kinds[i])]

\* the seven diagnostic lines of lines 134-140
NotFoundLines == <<"log", "log", "log", "log", "log", "log", "log">>

LogCount(emits) == Cardinality({i \in DOMAIN emits : emits[i] = "log"})

Emit(s, t, kinds) ==
    /\ threads' = [threads EXCEPT ![s] = [t EXCEPT !.emits = @ \o kinds]]
    /\ notifQueue' = notifQueue \o Notes(s, kinds)

ThreadFrame ==
    /\ lastOp' = NoOp
    /\ UNCHANGED <<storeVars, envVars, stopped_lines, edits, combo, buttons,
                   process_thread, uiPc>>

\* run lines 131-156 without line 141's process_finished.emit()
ThreadResolve_no_finished(s, found) ==
    /\ threads[s].pc = "resolve"
    /\ IF found
       THEN /\ threads' = [threads EXCEPT ![s].pc = "spawn",
                               ![s].cmd = BuildCmd(ExePath, threads[s].config)]
            /\ UNCHANGED notifQueue
       ELSE Emit(s, [threads[s] EXCEPT !.pc = "done"], NotFoundLines)
    /\ ThreadFrame

\* run lines 131-156: _find_executable, then the diagnostics or the command
ThreadResolve(s, found) ==
    /\ threads[s].pc = "resolve"
    /\ IF found
       THEN /\ threads' = [threads EXCEPT ![s].pc = "spawn",
                               ![s].cmd = BuildCmd(ExePath, threads[s].config)]
            /\ UNCHANGED notifQueue
       ELSE Emit(s, [threads[s] EXCEPT !.pc = "done"],
                 NotFoundLines \o <<"finished">>)
    /\ ThreadFrame

\* run lines 159-165: self.process = subprocess.Popen(...), or it raises
ThreadSpawn(s, ok) ==
    /\ threads[s].pc = "spawn"
    /\ IF ok
       THEN /\ threads' = [threads EXCEPT ![s].pc = "set_running",
                               ![s].process = "Popen", ![s].os = "alive"]
            /\ UNCHANGED notifQueue
       ELSE Emit(s, [threads[s] EXCEPT !.pc = "done"], <<"log", "finished">>)
    /\ ThreadFrame

\* run line 166
ThreadSetRunning(s) ==
    /\ threads[s].pc = "set_running"
    /\ threads' = [threads EXCEPT ![s].pc = "read", ![s].is_running = TRUE]
    /\ UNCHANGED notifQueue
    /\ ThreadFrame

\* run lines 168-172: readline returned a line
ThreadReadLine(s) ==
    /\ threads[s].pc = "read"
    /\ IF ~threads[s].is_running
       THEN /\ threads' = [threads EXCEPT ![s].pc = "wait"]
            /\ UNCHANGED notifQueue
       ELSE /\ LogCount(threads[s].emits) < MaxLines
            /\ Emit(s, threads[s], <<"log">>)
    /\ ThreadFrame

\* run line 168: readline returned '', the process closed its output
ThreadReadEOF(s) ==
    /\ threads[s].pc = "read"
    /\ threads[s].os = "exited"
    /\ threads' = [threads EXCEPT ![s].pc = "wait"]
    /\ UNCHANGED notifQueue
    /\ ThreadFrame

\* run lines 177-179: readline raised (undecodable output, I/O error)
ThreadReadError(s) ==
    /\ threads[s].pc = "read"
    /\ Emit(s, [threads[s] EXCEPT !.pc = "done"], <<"log", "finished">>)
    /\ ThreadFrame

\* run lines 174-175 without line 176's process_finished.emit()
ThreadWait_silent(s) ==
    /\ threads[s].pc = "wait"
    /\ threads[s].os = "exited"
    /\ threads' = [threads EXCEPT ![s].pc = "done", ![s].is_running = FALSE]
    /\ UNCHANGED notifQueue
    /\ ThreadFrame

\* run lines 174-176: process.wait() returned
ThreadWait(s) ==
    /\ threads[s].pc = "wait"
    /\ threads[s].os = "exited"
    /\ Emit(s, [threads[s] EXCEPT !.pc = "done", !.is_running = FALSE],
            <<"finished">>)
    /\ ThreadFrame

\* the external process exits: by itself, on SIGTERM or on SIGKILL
ProcExit(s) ==
    /\ threads[s].os \in {"alive", "terminating", "killed"}
    /\ threads' = [threads EXCEPT ![s].os = "exited"]
    /\ UNCHANGED notifQueue
    /\ ThreadFrame

\* -------------------------------------------------------- _find_executable
\* possible_paths (lines 199-207), in order
PossiblePaths ==
    <<"script_dir/ech-workers", "script_dir/ech-workers.exe",
      "cwd/ech-workers", "cwd/ech-workers.exe",
      "script_dir/ech-workers-gui.exe", "script_dir/build/ech-workers">>

\* what the first four bytes of a file are: ELF (7f 45 4c 46), Mach-O in
\* big-endian byte order (fe ed fa ce/cf), Mach-O in little-endian byte
\* order (ce/cf fa ed fe), PE (4d 5a), a shebang (23 21), anything else;
\* "unreadable" when open() or read() raises
Headers == {"elf", "macho_be", "macho_le", "pe", "shebang", "text", "unreadable"}

\* a file: exec is os.access(path, os.X_OK), mode "0755" after os.chmod
File(header, exec) ==
    [exists |-> TRUE, header |-> header, exec |-> exec, mode |-> "orig"]

Absent == [exists |-> FALSE, header |-> "text", exec |-> FALSE, mode |-> "orig"]

\* which is what shutil.which('ech-workers') returns
NoFiles ==
    [disk |-> [i \in DOMAIN PossiblePaths |-> Absent], which |-> None,
     chmod_ok |-> TRUE]

\* lines 217-220
is_binary(f) == f.header \in {"elf", "macho_be", "pe", "shebang"}

\* lines 209-233: the loop returns this path
Accepted(f) ==
    /\ f.exists
    /\ IF f.header = "unreadable" THEN f.exec ELSE is_binary(f) \/ f.exec

FirstAccepted(disk) ==
    IF \E i \in DOMAIN disk : Accepted(disk[i])
    THEN CHOOSE i \in DOMAIN disk :
            Accepted(disk[i]) /\ \A j \in 1..(i - 1) : ~Accepted(disk[j])
    ELSE 0

\* lines 224-228: os.chmod(path, 0o755), a failure is ignored
Chmod(f, ok) ==
    IF f.header = "shebang" /\ ~f.exec /\ ok
    THEN [f EXCEPT !.exec = TRUE, !.mode = "0755"]
    ELSE f

\* _find_executable: [result, files]
find_executable(fs) ==
    IF FirstAccepted(fs.disk) # 0
    THEN [result |-> PossiblePaths[FirstAccepted(fs.disk)],
          files |-> [fs EXCEPT !.disk[FirstAccepted(fs.disk)] =
                                   Chmod(@, fs.chmod_ok)]]
    ELSE [result |-> fs.which, files |-> fs]

\* --------------------------------------------------------- specifications
InputChars == {" ", "a"}

RECURSIVE Texts(_)
Texts(n) ==
    IF n = 0 THEN {<<>>}
    ELSE Texts(n - 1) \cup
         {Append(t, c) : t \in {u \in Texts(n - 1) : Len(u) = n - 1}, c \in InputChars}

RawNames == Texts(MaxNameLen)

FileValues ==
    [server |-> "a.com:443", listen |-> "127.0.0.1:30000", token |-> "",
     ip |-> "", dns |-> "", ech |-> ""]

FileA == Plain(Profile("i1", <<"a">>, FileValues, 0))
FileB == Plain(Profile("i2", <<"a", "a">>, FileValues, 0))

InitFiles ==
    {OtherFile("absent"), JsonFile("list", <<FileA>>, "i1")}
        \cup {JsonFile("list", <<FileA, FileB>>, c) : c \in {"i2", "zz", NoKey}}

InitWith(configs, canWrite, sessions) ==
    /\ servers = <<>>
    /\ servers_type = "list"
    /\ current_server_id = None
    /\ config_file \in configs
    /\ writable \in canWrite
    /\ uuids = 0
    /\ edits = BlankEdits
    /\ combo = [items |-> <<>>, index |-> 0]
    /\ buttons = IdleButtons
    /\ process_thread = 0
    /\ uiPc = "boot"
    /\ threads = <<>>
    /\ notifQueue = <<>>
    /\ quota = sessions
    /\ files = NoFiles
    /\ stopped_lines = 0
    /\ ret = None
    /\ lastOp = NoOp

Init == InitWith(InitFiles, {TRUE}, StoreSessions)

\* what the user types into the fields: the server address is cleared
StoreInputs(f) == IF f = "server" THEN {""} ELSE {}

StoreNext ==
    \/ \E f \in Fields : \E v \in StoreInputs(f) : UserEdit(f, v)
    \/ \E raw \in RawNames : MainWindow_add_server(raw, TRUE)
    \/ MainWindow_add_server(<<>>, FALSE)      \* the dialog was cancelled
    \/ MainWindow_save_server
    \/ \E yes \in BOOLEAN : MainWindow_delete_server(yes)
    \/ \E raw \in RawNames : MainWindow_rename_server(raw, TRUE)
    \/ MainWindow_rename_server(<<>>, FALSE)   \* the dialog was cancelled
    \/ \E j \in 1..(MaxServers + 1) : on_server_changed(j)

ProcNext ==
    \/ start_process
    \/ stop_process
    \/ stop_terminate
    \/ stop_waited
    \/ stop_kill
    \/ stop_joined
    \/ Deliver
    \/ \E s \in DOMAIN threads : \E found \in BOOLEAN : ThreadResolve(s, found)
    \/ \E s \in DOMAIN threads : \E ok \in BOOLEAN : ThreadSpawn(s, ok)
    \/ \E s \in DOMAIN threads : ThreadSetRunning(s)
    \/ \E s \in DOMAIN threads : ThreadReadLine(s)
    \/ \E s \in DOMAIN threads : ThreadReadEOF(s)
    \/ \E s \in DOMAIN threads : ThreadReadError(s)
    \/ \E s \in DOMAIN threads : ThreadWait(s)
    \/ \E s \in DOMAIN threads : ProcExit(s)

Next ==
    \/ \E autostart \in BOOLEAN : Boot(autostart)
    \/ StoreNext
    \/ ProcNext

Spec == Init /\ [][Next]_vars

\* The supervisor alone: the default profile, the user starts and stops.
InitProc == InitWith({OtherFile("absent")}, {TRUE}, MaxSessions)

NextProc ==
    \/ \E autostart \in BOOLEAN : Boot(autostart)
    \/ ProcNext

SpecProc == InitProc /\ [][NextProc]_vars

\* One session of the supervisor under fair scheduling: the relay thread
\* takes its next step when that step does not wait for the process (resolve,
\* Popen, line 166, a readline that returns '' after the exit, wait() after
\* the exit), the UI thread goes on through stop(), queued signals are
\* delivered, and a process that was sent SIGTERM or SIGKILL exits.  A process
\* left alone need not exit, print a line or break its pipe.
ThreadProgress(s) ==
    /\ s \in DOMAIN threads
    /\ \/ \E found \in BOOLEAN : ThreadResolve(s, found)
       \/ \E ok \in BOOLEAN : ThreadSpawn(s, ok)
       \/ ThreadSetRunning(s)
       \/ ThreadReadEOF(s)
       \/ ThreadWait(s)

SignalledExit(s) ==
    /\ s \in DOMAIN threads
    /\ threads[s].os \in {"terminating", "killed"}
    /\ ProcExit(s)

StopProgress == stop_terminate \/ stop_waited \/ stop_kill \/ stop_joined

FairProc ==
    /\ \A s \in 1..MaxSessions : WF_vars(ThreadProgress(s))
    /\ \A s \in 1..MaxSessions : WF_vars(SignalledExit(s))
    /\ WF_vars(StopProgress)
    /\ WF_vars(Deliver)

InitProcFair == InitWith({OtherFile("absent")}, {TRUE}, StoreSessions)

SpecProcFair == InitProcFair /\ [][NextProc]_vars /\ FairProc

\* ProcessThread.stop called directly, twice in a row, on a thread object in
\* any state a session can leave it in.  The relay thread and the signal
\* queue move until the first call; a process that was signalled may exit at
\* any time.
MaxStops == 2

NoCalls == [calls |-> 0, before |-> NoServer, after |-> NoServer,
            qbefore |-> <<>>, qafter |-> <<>>]

InitStop ==
    /\ servers = <<>>
    /\ servers_type = "list"
    /\ current_server_id = None
    /\ config_file = OtherFile("absent")
    /\ writable = TRUE
    /\ uuids = 0
    /\ edits = BlankEdits
    /\ combo = [items |-> <<>>, index |-> 0]
    /\ buttons = IdleButtons
    /\ process_thread = 0
    /\ uiPc = "boot"
    /\ threads = <<>>
    /\ notifQueue = <<>>
    /\ quota = StoreSessions
    /\ files = NoFiles
    /\ stopped_lines = 0
    /\ ret = NoCalls
    /\ lastOp = NoOp

BeforeStops == ret.calls = 0 /\ uiPc \in {"boot", "idle"}

\* process_thread.stop(), line 183
CallStop ==
    /\ uiPc = "idle"
    /\ process_thread # 0
    /\ ret.calls < MaxStops
    /\ threads' = [threads EXCEPT ![process_thread].is_running = FALSE]
    /\ uiPc' = "stop_check"
    /\ ret' = IF ret.calls = 0
              THEN [ret EXCEPT !.before = threads[process_thread],
                               !.qbefore = notifQueue]
              ELSE ret
    /\ lastOp' = Op("stop", "called")
    /\ UNCHANGED <<storeVars, writable, quota, files, stopped_lines, edits,
                   combo, buttons,
                   process_thread, notifQueue>>

\* stop() returns to its caller
StopReturn ==
    /\ uiPc = "join"
    /\ uiPc' = "idle"
    /\ ret' = IF ret.calls = 0
              THEN [ret EXCEPT !.calls = 1, !.after = threads[process_thread],
                               !.qafter = notifQueue]
              ELSE [ret EXCEPT !.calls = @ + 1]
    /\ lastOp' = Op("stop", "returned")
    /\ UNCHANGED <<storeVars, writable, quota, files, stopped_lines, edits,
                   combo, buttons, procVars>>

NextStop ==
    \/ \E autostart \in BOOLEAN : Boot(autostart)
    \/ BeforeStops /\ start_process
    \/ BeforeStops /\ Deliver
    \/ BeforeStops /\ \E s \in DOMAIN threads : \E found \in BOOLEAN : ThreadResolve(s, found)
    \/ BeforeStops /\ \E s \in DOMAIN threads : \E ok \in BOOLEAN : ThreadSpawn(s, ok)
    \/ BeforeStops /\ \E s \in DOMAIN threads : ThreadSetRunning(s)
    \/ BeforeStops /\ \E s \in DOMAIN threads : ThreadReadLine(s)
    \/ BeforeStops /\ \E s \in DOMAIN threads : ThreadReadEOF(s)
    \/ BeforeStops /\ \E s \in DOMAIN threads : ThreadReadError(s)
    \/ BeforeStops /\ \E s \in DOMAIN threads : ThreadWait(s)
    \/ BeforeStops /\ \E s \in DOMAIN threads : ProcExit(s)
    \/ \E s \in DOMAIN threads : SignalledExit(s)
    \/ CallStop
    \/ stop_terminate
    \/ stop_waited
    \/ stop_kill
    \/ StopReturn

SpecStop == InitStop /\ [][NextStop]_vars

\* ConfigManager.load_config alone, on every shape of config.json
LoadLists == {<<>>, <<FileA>>, <<FileB>>, <<FileA, FileB>>, <<FileB, FileA>>}

LoadFiles ==
    {OtherFile("absent"), OtherFile("unreadable"), OtherFile("malformed"),
     NonObjectFile}
        \cup {JsonFile(st, <<>>, c) :
                st \in {"missing", "null", "emptyobj", "obj", "emptystr", "str"},
                c \in {NoKey, "i1", "zz"}}
        \cup {JsonFile("list", sv, c) : sv \in LoadLists, c \in {NoKey, "i1", "zz"}}

InitLoad == InitWith(LoadFiles, BOOLEAN, 0)

NextLoad == Boot(FALSE)

SpecLoad == InitLoad /\ [][NextLoad]_vars

\* ConfigManager.get_current_server alone, on every list and current id
MaxListLen == 3

GetIds == {"i1", "i2", "i3"}

RECURSIVE IdLists(_)
IdLists(n) ==
    IF n = 0 THEN {<<>>}
    ELSE IdLists(n - 1) \cup
         {Append(l, id) : l \in {u \in IdLists(n - 1) : Len(u) = n - 1}, id \in GetIds}

GetLists ==
    {[i \in DOMAIN l |-> Profile(l[i], <<"a">>, FileValues, i)] : l \in IdLists(MaxListLen)}

InitGet ==
    /\ servers \in GetLists
    /\ current_server_id \in GetIds \cup {"zz", "", None}
    /\ servers_type = "list"
    /\ config_file = OtherFile("absent")
    /\ writable = TRUE
    /\ uuids = 0
    /\ edits = BlankEdits
    /\ combo = [items |-> <<>>, index |-> 0]
    /\ buttons = IdleButtons
    /\ process_thread = 0
    /\ uiPc = "call"
    /\ threads = <<>>
    /\ notifQueue = <<>>
    /\ quota = 0
    /\ files = NoFiles
    /\ stopped_lines = 0
    /\ ret = None
    /\ lastOp = NoOp

CallGetCurrent ==
    /\ uiPc = "call"
    /\ ret' = get_current_server(servers, current_server_id)
    /\ uiPc' = "returned"
    /\ lastOp' = Op("get_current_server", "returned")
    /\ UNCHANGED <<storeVars, writable, quota, files, stopped_lines, edits,
                   combo, buttons, procVars>>

NextGet == CallGetCurrent

SpecGet == InitGet /\ [][NextGet]_vars

\* ConfigManager.delete_server alone, on every list and current id
CallDelete(id) ==
    /\ uiPc = "call"
    /\ servers' = delete_server_list(servers, id)
    /\ current_server_id' = delete_server_current(servers, current_server_id, id)
    /\ ret' = [id |-> id, servers |-> servers, current |-> current_server_id]
    /\ uiPc' = "returned"
    /\ lastOp' = Op("delete_server", "returned")
    /\ UNCHANGED <<servers_type, config_file, uuids, writable, quota, files,
                   stopped_lines, edits, combo, buttons, procVars>>

NextDelete == \E id \in GetIds : CallDelete(id)

SpecDelete == InitGet /\ [][NextDelete]_vars

\* ProcessThread._find_executable alone: at most two of the candidate paths
\* hold a file, of every kind; ech-workers is or is not in PATH
FileKinds == {File(h, e) : h \in Headers, e \in BOOLEAN} \cup {Absent}

Disks ==
    {[i \in DOMAIN PossiblePaths |->
         IF i = a THEN x ELSE IF i = b THEN y ELSE Absent] :
        a, b \in DOMAIN PossiblePaths, x, y \in FileKinds}

InitFind ==
    /\ stopped_lines = 0
    /\ files \in [disk : Disks, which : {None, "PATH/ech-workers"},
                  chmod_ok : BOOLEAN]
    /\ servers = <<>>
    /\ servers_type = "list"
    /\ current_server_id = None
    /\ config_file = OtherFile("absent")
    /\ writable = TRUE
    /\ uuids = 0
    /\ edits = BlankEdits
    /\ combo = [items |-> <<>>, index |-> 0]
    /\ buttons = IdleButtons
    /\ process_thread = 0
    /\ uiPc = "call"
    /\ threads = <<>>
    /\ notifQueue = <<>>
    /\ quota = 0
    /\ ret = None
    /\ lastOp = NoOp

CallFind ==
    /\ uiPc = "call"
    /\ ret' = find_executable(files).result
    /\ files' = find_executable(files).files
    /\ uiPc' = "returned"
    /\ lastOp' = Op("_find_executable", "returned")
    /\ UNCHANGED <<storeVars, writable, quota, stopped_lines, edits, combo,
                   buttons, procVars>>

NextFind == CallFind

SpecFind == InitFind /\ [][NextFind]_vars

\* Starting with the two required fields filled in or left empty: the config
\* file holds one profile, the user edits the two fields, adds and deletes
\* profiles, starts and stops.
StartServers == {"", "a.com:443"}
StartListens == {"", "127.0.0.1:30000"}

StartFiles ==
    {OtherFile("absent")} \cup
    {JsonFile("list",
              <<Plain(Profile("i1", <<"a">>,
                              [FileValues EXCEPT !.server = sv, !.listen = ls],
                              0))>>,
              "i1") : sv \in StartServers, ls \in StartListens}

InitStart == InitWith(StartFiles, {TRUE}, StoreSessions)

StartInputs(f) == IF f = "server" THEN StartServers ELSE StartListens

NextStart ==
    \/ \E autostart \in BOOLEAN : Boot(autostart)
    \/ \E f \in {"server", "listen"} : \E v \in StartInputs(f) : UserEdit(f, v)
    \/ MainWindow_add_server(<<"b">>, TRUE)
    \/ MainWindow_delete_server(TRUE)
    \/ ProcNext

SpecStart == InitStart /\ [][NextStart]_vars

\* ProcessThread.run up to the command line, on every profile
ArgConfigs ==
    [server : {"", "a.com:443"}, listen : {"", "127.0.0.1:30000"},
     token : {"", "t0k3n"}, ip : {"", "1.2.3.4"},
     dns : {"", DefaultDns, "doh.example/dns-query"},
     ech : {"", DefaultEch, "ech.example"}]

InitArgs ==
    /\ \E c \in ArgConfigs :
        /\ servers = <<Profile("u1", DefaultName, c, 1)>>
        /\ edits = c
        /\ threads = <<NewThread(c)>>
        /\ config_file = JsonFile("list", Serialize(servers), "u1")
    /\ current_server_id = "u1"
    /\ servers_type = "list"
    /\ writable = TRUE
    /\ uuids = 1
    /\ combo = [items |-> <<>>, index |-> 0]
    /\ buttons = StartedButtons
    /\ process_thread = 1
    /\ uiPc = "idle"
    /\ notifQueue = <<>>
    /\ quota = 1
    /\ files = NoFiles
    /\ stopped_lines = 0
    /\ ret = None
    /\ lastOp = Op("start", "accepted")

NextArgs == \E s \in DOMAIN threads : \E found \in BOOLEAN : ThreadResolve(s, found)

SpecArgs == InitArgs /\ [][NextArgs]_vars

\* ------------------------------------------------------------------ claims
Booted == uiPc # "boot" /\ servers_type = "list" /\ lastOp.result # "raised"

\* C1: after load_config and after any sequence of UI operations the profile
\* list holds at least one profile.
C1_ProfileListNeverEmpty == Booted => Len(servers) >= 1

\* C2: no two entries of the profile list have the same id.
C2_IdsUnique ==
    Booted => \A i, j \in DOMAIN servers : i # j => servers[i].id # servers[j].id

\* C3: no two entries of the profile list have the same name.
C3_NamesUnique ==
    Booted => \A i, j \in DOMAIN servers : i # j => servers[i].name # servers[j].name

\* an entry other than the current profile carries the name
OtherEntryNamed(s, cur, name) ==
    \E i \in DOMAIN s : i # CurrentIndex(s, cur) /\ s[i].name = name

StoreUntouched == UNCHANGED <<servers, current_server_id, config_file>>

\* C4: an add whose trimmed name is the name of an existing profile, and a
\* rename whose trimmed name is the name of an existing other profile, leave
\* the profile list, current_server_id and the config file as they were.
C4_DuplicateNameRejected ==
    [][\A raw \in RawNames :
          /\ (/\ Strip(raw) # <<>>
              /\ NameTaken(servers, Strip(raw))
              /\ MainWindow_add_server(raw, TRUE)) => StoreUntouched
          /\ (/\ Strip(raw) # <<>>
              /\ OtherEntryNamed(servers, current_server_id, Strip(raw))
              /\ MainWindow_rename_server(raw, TRUE)) => StoreUntouched]_vars

\* C5: get_current_server returns a profile whose id is current_server_id
\* when the list has one, otherwise the first profile, and None only for the
\* empty list.
C5_GetCurrent ==
    uiPc = "returned" =>
        LET matching == {i \in DOMAIN servers : servers[i].id = current_server_id}
        IN  /\ matching # {} =>
                /\ ret # NoServer
                /\ ret.id = current_server_id
                /\ \E i \in matching : ret = servers[i]
            /\ (matching = {} /\ servers # <<>>) => ret = servers[1]
            /\ ret = NoServer <=> servers = <<>>

C5_StaleIdWitness ==
    /\ uiPc = "returned"
    /\ current_server_id = "zz"
    /\ Len(servers) >= 2
    /\ ret = servers[1]

NoProfileLoaded(file) ==
    ~(file.kind = "json" /\ file.top = "object" /\ file.st = "list"
      /\ file.sv # <<>>)

\* C6: load_config returns without raising on every config file; when no
\* profile was loaded the store holds exactly the default profile, it is
\* the current one and (where the file can be written) the file holds it.
C6_LoadNeverRaises ==
    [][Boot(FALSE) =>
        /\ lastOp'.result = "returned"
        /\ NoProfileLoaded(config_file) =>
            /\ servers_type' = "list"
            /\ Len(servers') = 1
            /\ servers'[1].name = DefaultName
            /\ Values(servers'[1]) = DefaultValues
            /\ current_server_id' = servers'[1].id
            /\ writable =>
                config_file' =
                    JsonFile("list", Serialize(servers'), current_server_id')]_vars

Opt(flag, v, present) == IF present THEN <<flag, v>> ELSE <<>>

C7_Expected(c) ==
    <<ExePath>>
        \o Opt("-f", c.server, c.server # "")
        \o Opt("-l", c.listen, c.listen # "")
        \o Opt("-token", c.token, c.token # "")
        \o Opt("-ip", c.ip, c.ip # "")
        \o Opt("-dns", c.dns, c.dns # "" /\ c.dns # "dns.alidns.com/dns-query")
        \o Opt("-ech", c.ech, c.ech # "" /\ c.ech # "cloudflare-ech.com")

FlagNames == {"-f", "-l", "-token", "-ip", "-dns", "-ech"}

C7_Example ==
    [server |-> "a.com:443", listen |-> "127.0.0.1:30000", token |-> "",
     ip |-> "", dns |-> "", ech |-> ""]

\* C7: the argument list is the executable followed by the flags of the
\* non-blank, non-default fields in the fixed order; no flag has an empty
\* value; the example profile gives -f a.com:443 -l 127.0.0.1:30000.
C7_ArgumentList ==
    \A s \in DOMAIN threads :
        threads[s].pc = "spawn" =>
            LET cmd == threads[s].cmd
                c == threads[s].config
            IN  /\ cmd = C7_Expected(c)
                /\ \A i \in DOMAIN cmd :
                       cmd[i] \in FlagNames => i < Len(cmd) /\ cmd[i + 1] # ""
                /\ c = C7_Example =>
                       cmd = <<ExePath, "-f", "a.com:443", "-l", "127.0.0.1:30000">>

C7_DefaultDnsWitness ==
    \E s \in DOMAIN threads :
        /\ threads[s].pc = "spawn"
        /\ threads[s].config.dns = DefaultDns
        /\ threads[s].config.ech = "ech.example"
        /\ threads[s].config.token = ""
        /\ threads[s].cmd =
              <<ExePath, "-f", "a.com:443", "-l", "127.0.0.1:30000",
                "-ech", "ech.example">>

LiveStates == {"alive", "terminating", "killed"}

LiveProcesses == {s \in DOMAIN threads : threads[s].os \in LiveStates}

\* C8: at most one external process launched by the GUI is alive.
C8_AtMostOneProcess == Cardinality(LiveProcesses) <= 1

FinishedCount(emits) == Cardinality({i \in DOMAIN emits : emits[i] = "finished"})

\* C9: a relay thread that has ended has emitted process_finished exactly
\* once, as its last notification; one that has not ended has not emitted it.
C9_FinishedExactlyOnce ==
    \A s \in DOMAIN threads :
        LET e == threads[s].emits
        IN  IF threads[s].pc = "done"
            THEN FinishedCount(e) = 1 /\ e[Len(e)] = "finished"
            ELSE FinishedCount(e) = 0

C9_ForcedStopWitness ==
    \E s \in DOMAIN threads :
        /\ threads[s].pc = "done"
        /\ threads[s].os = "exited"
        /\ ~threads[s].is_running
        /\ LogCount(threads[s].emits) >= 1
        /\ lastOp = Op("stop", "returned")

\* C10: when stop_process returns, the relay thread of the stopped session
\* has finished and its external process is not alive.
C10_StopLeavesNothingAlive ==
    [][(uiPc = "join" /\ uiPc' = "idle") =>
        /\ threads'[process_thread].pc = "done"
        /\ threads'[process_thread].os \notin LiveStates]_vars

InStop == uiPc \in {"stop_check", "stop_wait", "join"}

\* C11: every stop request eventually completes: once stop_process has begun,
\* it eventually returns and the UI thread is idle again.
C11_StopEventuallyReturns == InStop ~> (uiPc = "idle")

\* a process that was sent SIGTERM or SIGKILL counts as gone
Settled(t) ==
    [t EXCEPT !.os = IF @ \in {"terminating", "killed"} THEN "exited" ELSE @]

\* C12: ProcessThread.stop on a thread with no process spawned changes
\* nothing; on a thread whose process has exited it sends no signal and only
\* clears is_running; it never emits a notification; and after a second call
\* in a row the thread is as the first call left it.
C12_StopIdempotent ==
    ret.calls >= 1 =>
        /\ ret.before.process = None => ret.after = ret.before
        /\ ret.before.os = "exited" =>
               ret.after = [ret.before EXCEPT !.is_running = FALSE]
        /\ ret.after.emits = ret.before.emits
        /\ ret.qafter = ret.qbefore
        /\ (ret.calls >= 2 /\ uiPc = "idle") =>
               /\ Settled(threads[process_thread]) = Settled(ret.after)
               /\ notifQueue = ret.qafter

C12_StopAfterExitWitness ==
    /\ ret.calls = 2
    /\ uiPc = "idle"
    /\ ret.before.os = "exited"
    /\ ret.before.is_running
    /\ ~threads[process_thread].is_running

\* run() of session s has returned without a command line: no executable
NotFoundEnded(s) ==
    s \in DOMAIN threads /\ threads[s].pc = "done" /\ threads[s].cmd = <<>>

Pending(s) == \E i \in DOMAIN notifQueue : notifQueue[i].sid = s

IdleReady == buttons.start /\ ~buttons.stop

\* C13: a session whose executable was not found has no process handle, no
\* process and a false running flag, has emitted the diagnostic lines and
\* then one process_finished; and while it is the session the controls
\* belong to, the start button is eventually enabled and the stop button
\* disabled.
C13_NotFoundSpawnsNothing ==
    /\ [](\A s \in DOMAIN threads :
            NotFoundEnded(s) =>
                /\ threads[s].process = None
                /\ threads[s].os = "none"
                /\ ~threads[s].is_running
                /\ threads[s].emits = NotFoundLines \o <<"finished">>)
    /\ \A s \in 1..MaxSessions :
            (NotFoundEnded(s) /\ process_thread = s /\ ~IdleReady) ~> IdleReady

C13_NotFoundHandledWitness ==
    /\ NotFoundEnded(1)
    /\ ~Pending(1)
    /\ IdleReady
    /\ lastOp = Op("on_process_finished", "signal")

StoreChanged == servers' # servers \/ current_server_id' # current_server_id

\* C14: when a UI operation has changed the profile list or
\* current_server_id and the file could be written, the file holds the list
\* and the current id of the store, and load_config on that file gives the
\* same list in the same order and the same current id.
C14_FileReflectsStore ==
    [][(uiPc # "boot" /\ writable /\ StoreChanged) =>
        /\ config_file' = JsonFile("list", Serialize(servers'), current_server_id')
        /\ LET r == load_config(config_file', writable, uuids')
           IN  /\ r.status = "returned"
               /\ Serialize(r.servers) = Serialize(servers')
               /\ r.current = current_server_id']_vars

\* C15: delete_server(id) on a list of two or more profiles removes exactly
\* the profiles with that id and keeps the others in order; when a single
\* profile is left, current_server_id is its id.
C15_DeleteKeepsCurrentValid ==
    (uiPc = "returned" /\ lastOp.op = "delete_server" /\ Len(ret.servers) >= 2) =>
        /\ servers = SelectSeq(ret.servers, LAMBDA p : p.id # ret.id)
        /\ Len(servers) = 1 => current_server_id = servers[1].id

\* a step of ProcessThread.run, executed by the relay thread
RelayStep(s) ==
    \/ \E found \in BOOLEAN : ThreadResolve(s, found)
    \/ \E ok \in BOOLEAN : ThreadSpawn(s, ok)
    \/ ThreadSetRunning(s)
    \/ ThreadReadLine(s)
    \/ ThreadReadEOF(s)
    \/ ThreadReadError(s)
    \/ ThreadWait(s)

\* C16: no step of the relay thread assigns the process handle or
\* is_running; only the control thread writes them.
C16_RelayOnlyReads ==
    [][\A s \in DOMAIN threads :
          RelayStep(s) =>
              /\ threads'[s].process = threads[s].process
              /\ threads'[s].is_running = threads[s].is_running]_vars

\* C17: an accepted UI add makes the list one longer, keeps every profile
\* that was there with its id, name and field values, and the appended
\* profile has the entered name and the field values of the UI and is the
\* current one.
C17_AddAppendsOnly ==
    [][\A raw \in RawNames :
          (MainWindow_add_server(raw, TRUE) /\ lastOp'.result = "accepted") =>
              /\ Len(servers') = Len(servers) + 1
              /\ \A i \in DOMAIN servers :
                     \E j \in DOMAIN servers' : Plain(servers'[j]) = Plain(servers[i])
              /\ servers'[Len(servers')].name = Strip(raw)
              /\ Values(servers'[Len(servers')]) = edits
              /\ current_server_id' = servers'[Len(servers')].id]_vars

\* a candidate validates: its header carries an ELF, Mach-O, PE or shebang
\* signature, or it has execute permission
Validates(f) ==
    /\ f.exists
    /\ \/ f.header \in {"elf", "macho_be", "macho_le", "pe", "shebang"}
       \/ f.exec

Valid(disk) == {i \in DOMAIN disk : Validates(disk[i])}

\* C18: _find_executable returns the first candidate path, in the fixed
\* order, that exists and validates, otherwise what the PATH lookup finds,
\* and None only when neither gives anything; a shebang file without
\* execute permission that is returned gets mode 0755.
C18_FirstValidCandidate ==
    [][CallFind =>
        /\ \A i \in Valid(files.disk) :
               (\A j \in Valid(files.disk) : i <= j) =>
                   /\ ret' = PossiblePaths[i]
                   /\ (/\ files.disk[i].header = "shebang"
                       /\ ~files.disk[i].exec
                       /\ files.chmod_ok) => files'.disk[i].mode = "0755"
        /\ Valid(files.disk) = {} => ret' = files.which
        /\ ret' = None <=> (Valid(files.disk) = {} /\ files.which = None)]_vars

\* a session is active: start was accepted and on_process_finished has not
\* run since
SessionActive == process_thread # 0 /\ buttons.stop /\ ~buttons.start

\* C19: while a session is active, current_server_id does not change and
\* the current profile stays in the list.
C19_CurrentProfileFixed ==
    [][(SessionActive /\ SessionActive') =>
        /\ current_server_id' = current_server_id
        /\ get_current_server(servers', current_server_id') # NoServer
        /\ get_current_server(servers', current_server_id').id =
               get_current_server(servers, current_server_id).id]_vars

\* the queued process_finished signal of session s reaches on_process_finished
FinishedHandled(s) ==
    /\ uiPc = "idle"
    /\ notifQueue # <<>>
    /\ Head(notifQueue) = Note(s, "finished")
    /\ notifQueue' = Tail(notifQueue)

\* C20: on_process_finished runs once per session, so log_text never holds
\* more "process stopped" lines than sessions were started, and the
\* notification of a session is handled only while that session is the
\* latest one started.
C20_CompletionHandledOnce ==
    [][/\ stopped_lines' <= Len(threads')
       /\ \A s \in DOMAIN threads : FinishedHandled(s) => s = process_thread]_vars

BlankField(e) == ~Truthy(e.server) \/ ~Truthy(e.listen)

\* C21: a start request with an empty server or listen field is rejected and
\* changes nothing: no thread, the store, the file and the controls as they
\* were; with such a field auto-start starts nothing either.
C21_BlankStartRejected ==
    [][/\ (UiIdle /\ buttons.start /\ BlankField(edits) /\ lastOp'.op = "start") =>
            /\ lastOp'.result = "rejected"
            /\ UNCHANGED <<storeVars, procVars, edits, combo, buttons, uiPc>>
       /\ (uiPc = "boot" /\ uiPc' = "idle" /\ BlankField(edits')) =>
            /\ threads' = <<>>
            /\ process_thread' = 0
            /\ buttons' = IdleButtons
            /\ servers' = load_config(config_file, writable, uuids).servers
            /\ config_file' = load_config(config_file, writable, uuids).file]_vars
====
